---- MODULE Spec2Model ----
(***************************************************************************)
(* Model of the clint introspection engine: the recursive --help crawler   *)
(* (src/src/cli_parser.rs), its line classifier and the usage-grammar      *)
(* parser (src/src/usage_parser.rs).                                       *)
(*                                                                         *)
(* Strings are TLA+ strings; a character is a string of length one.        *)
(***************************************************************************)
EXTENDS Integers, Sequences, FiniteSets, TLC

(***************************************************************************)
(* Rust std string primitives used by the code.                            *)
(***************************************************************************)
Ch(s, i) == SubSeq(s, i, i)

IsWhitespace(c) == c \in {" ", "\t", "\n"}

MinOf[S \in SUBSET Int] == CHOOSE m \in S : \A n \in S : m <= n
MaxOf[S \in SUBSET Int] == CHOOSE m \in S : \A n \in S : n <= m
SetMin(S) == MinOf[S]
SetMax(S) == MaxOf[S]

starts_with(s, p) == Len(s) >= Len(p) /\ SubSeq(s, 1, Len(p)) = p

ends_with(s, p) == Len(s) >= Len(p) /\ SubSeq(s, Len(s) - Len(p) + 1, Len(s)) = p

\* the arguments of an operator are passed by name; the string primitives that scan
\* their argument are functions, so that it is evaluated once
OccurrencesOf[s \in STRING, p \in STRING] ==
    {i \in 1..(Len(s) - Len(p) + 1) : SubSeq(s, i, i + Len(p) - 1) = p}
Occurrences(s, p) == OccurrencesOf[s, p]

contains(s, p) == Occurrences(s, p) # {}

\* str::find: index (1-based) of the first occurrence, 0 when there is none
FindIn[s \in STRING, p \in STRING] ==
    IF OccurrencesOf[s, p] # {} THEN SetMin(OccurrencesOf[s, p]) ELSE 0
find(s, p) == FindIn[s, p]

NonWsOf[s \in STRING] == {i \in 1..Len(s) : ~IsWhitespace(Ch(s, i))}

TrimStart[s \in STRING] ==
    IF NonWsOf[s] = {} THEN "" ELSE SubSeq(s, SetMin(NonWsOf[s]), Len(s))
trim_start(s) == TrimStart[s]

TrimEnd[s \in STRING] ==
    IF NonWsOf[s] = {} THEN "" ELSE SubSeq(s, 1, SetMax(NonWsOf[s]))
trim_end(s) == TrimEnd[s]

Trim[s \in STRING] ==
    IF NonWsOf[s] = {} THEN "" ELSE SubSeq(s, SetMin(NonWsOf[s]), SetMax(NonWsOf[s]))
trim(s) == Trim[s]

strip_suffix(s, p) == IF ends_with(s, p) THEN SubSeq(s, 1, Len(s) - Len(p)) ELSE s

UpperCase == "ABCDEFGHIJKLMNOPQRSTUVWXYZ"
LowerCase == "abcdefghijklmnopqrstuvwxyz"

LowerChar(c) ==
    IF contains(UpperCase, c) /\ Len(c) = 1 THEN Ch(LowerCase, find(UpperCase, c)) ELSE c

LowerFrom[s \in STRING] == IF s = "" THEN "" ELSE LowerChar(Head(s)) \o LowerFrom[Tail(s)]
to_lowercase(s) == LowerFrom[s]

\* index of the first whitespace character of s, Len(s)+1 when there is none
FirstWsOf[s \in STRING] ==
    LET W == {i \in 1..Len(s) : IsWhitespace(Ch(s, i))}
    IN  IF W = {} THEN Len(s) + 1 ELSE SetMin(W)
FirstWs(s) == FirstWsOf[s]

SplitWhitespaceFrom[s \in STRING] ==
    LET t == trim_start(s)
    IN  IF t = "" THEN <<>>
        ELSE <<SubSeq(t, 1, FirstWs(t) - 1)>> \o SplitWhitespaceFrom[SubSeq(t, FirstWs(t), Len(t))]
split_whitespace(s) == SplitWhitespaceFrom[s]

\* Regex::new(r"\s+").split(s): leading or trailing whitespace gives an empty piece
RegexSplitFrom[s \in STRING] ==
    IF FirstWs(s) > Len(s) THEN <<s>>
    ELSE <<SubSeq(s, 1, FirstWs(s) - 1)>> \o RegexSplitFrom[trim_start(SubSeq(s, FirstWs(s), Len(s)))]
regex_split_ws(s) == RegexSplitFrom[s]

\* str::lines: split on "\n", no line for the empty string
LinesFrom[s \in STRING] ==
    IF s = "" THEN <<>>
    ELSE IF ~contains(s, "\n") THEN <<s>>
    ELSE <<SubSeq(s, 1, find(s, "\n") - 1)>> \o LinesFrom[SubSeq(s, find(s, "\n") + 1, Len(s))]
lines_of(s) == LinesFrom[s]

Join[parts \in Seq(STRING), sep \in STRING] ==
    LET joined[k \in 0..Len(parts)] ==
            IF k = 0 THEN ""
            ELSE IF k = 1 THEN parts[1]
            ELSE joined[k - 1] \o sep \o parts[k]
    IN  joined[Len(parts)]
join(parts, sep) == Join[parts, sep]

last(parts) == parts[Len(parts)]

\* Option<T>
None == [some |-> FALSE]
Some(v) == [some |-> TRUE, val |-> v]

(***************************************************************************)
(* usage_parser.rs                                                         *)
(***************************************************************************)
IsDelimiter(c) == c \in {" ", "[", "]", "(", ")", "|"}

\* take_while on the borrowed iterator: the token is the run before the first
\* delimiter; the delimiter that stopped the scan is consumed with it
ExtractToken[chars \in STRING] ==
    LET D == {i \in 1..Len(chars) : IsDelimiter(Ch(chars, i))}
        stop == IF D = {} THEN Len(chars) + 1 ELSE SetMin(D)
    IN  [token |-> trim_end(SubSeq(chars, 1, stop - 1)),
         rest  |-> SubSeq(chars, stop + 1, Len(chars))]
extract_token(chars) == ExtractToken[chars]

\* nesting depth after the first i characters of chars, starting inside one opener
DepthAfter(chars, i, open, close) ==
    1 + Cardinality({j \in 1..i : Ch(chars, j) = open})
      - Cardinality({j \in 1..i : Ch(chars, j) = close})

\* the content up to the first closer, whatever the nesting
extract_until_first(chars, open, close) ==
    LET M == {i \in 1..Len(chars) : Ch(chars, i) = close}
        stop == IF M = {} THEN Len(chars) + 1 ELSE SetMin(M)
    IN  [content |-> trim(SubSeq(chars, 1, stop - 1)),
         rest    |-> SubSeq(chars, stop + 1, Len(chars))]

\* the scan that keeps nothing when the closer is missing
extract_matched_only(chars, open, close) ==
    LET M == {i \in 1..Len(chars) : DepthAfter(chars, i, open, close) = 0}
    IN  IF M = {} THEN [content |-> "", rest |-> ""]
        ELSE [content |-> trim(SubSeq(chars, 1, SetMin(M) - 1)),
              rest    |-> SubSeq(chars, SetMin(M) + 1, Len(chars))]

ExtractUntilMatching[chars \in STRING, open \in STRING, close \in STRING] ==
    LET M == {i \in 1..Len(chars) : DepthAfter(chars, i, open, close) = 0}
        stop == IF M = {} THEN Len(chars) + 1 ELSE SetMin(M)
    IN  [content |-> trim(SubSeq(chars, 1, stop - 1)),
         rest    |-> SubSeq(chars, stop + 1, Len(chars))]
extract_until_matching(chars, open, close) == ExtractUntilMatching[chars, open, close]

\* Regex ^<[^>]+>=<[^>]+>$
key_value_re(t) ==
    /\ starts_with(t, "<")
    /\ contains(t, ">=<")
    /\ LET j == find(t, ">")
       IN  /\ j > 2
           /\ SubSeq(t, j, j + 2) = ">=<"
           /\ Len(t) >= j + 4
           /\ Ch(t, Len(t)) = ">"
           /\ ~contains(SubSeq(t, j + 3, Len(t) - 1), ">")

\* str::trim_end_matches(p): p removed from the end as often as it matches
TrimEndMatches[s \in STRING, p \in STRING] ==
    LET K == {k \in 0..Len(s) : /\ k * Len(p) <= Len(s)
                                /\ \A j \in 1..k : SubSeq(s, Len(s) - j * Len(p) + 1,
                                                          Len(s) - (j - 1) * Len(p)) = p}
    IN  IF p = "" THEN s ELSE SubSeq(s, 1, Len(s) - SetMax(K) * Len(p))
trim_end_matches(s, p) == TrimEndMatches[s, p]

UsageComponent(type, name, required, repeatable, key_value, alternatives, children) ==
    [component_type |-> type, name |-> name, required |-> required,
     repeatable |-> repeatable, key_value |-> key_value,
     alternatives |-> alternatives, children |-> children]

TokenComponentOf[token \in STRING] ==
    LET repeatable  == ends_with(token, "...")
        token_clean == IF repeatable THEN trim(trim_end_matches(token, "...")) ELSE token
        key_value   == IF key_value_re(token_clean) THEN TRUE ELSE contains(token, "=")
        type == IF starts_with(token_clean, "--") THEN "Flag"
                ELSE IF (starts_with(token_clean, "<") /\ ends_with(token_clean, ">")) \/ key_value
                     THEN "Argument"
                     ELSE "Keyword"
    IN  UsageComponent(type, token_clean, TRUE, repeatable, key_value, <<>>, <<>>)
TokenComponent(token) == TokenComponentOf[token]

\* str::split(sep) for a non-empty separator
SplitFrom[s \in STRING, sep \in STRING] ==
    IF ~contains(s, sep) THEN <<s>>
    ELSE <<SubSeq(s, 1, find(s, sep) - 1)>>
         \o SplitFrom[SubSeq(s, find(s, sep) + Len(sep), Len(s)), sep]
split_str(s, sep) == SplitFrom[s, sep]

\* a test that finds no list empty
never_empty(v) == FALSE

\* Vec::is_empty
is_empty(v) == v = <<>>

RECURSIVE parse_alternatives(_)

\* the loop of parse_tokens over the characters still to be read
ParseFrom[line \in STRING] ==
    IF line = "" THEN <<>>
    ELSE IF Head(line) = "["
    THEN LET g == extract_until_matching(Tail(line), "[", "]")
         IN  <<UsageComponent("Group", "", FALSE, ends_with(g.content, "..."), FALSE,
                              <<>>, ParseFrom[g.content])>>
             \o ParseFrom[g.rest]
    ELSE IF Head(line) = "("
    THEN LET g == extract_until_matching(Tail(line), "(", ")")
             alts == parse_alternatives(g.content)
         IN  IF is_empty(alts) THEN ParseFrom[g.rest]
             ELSE <<UsageComponent("AlternativeGroup", "", TRUE, ends_with(g.content, "..."),
                                   FALSE, alts, <<>>)>>
                  \o ParseFrom[g.rest]
    ELSE LET t == extract_token(line)
         IN  IF t.token = "" THEN ParseFrom[t.rest]
             ELSE <<TokenComponent(t.token)>> \o ParseFrom[t.rest]

parse_tokens(line) == ParseFrom[line]

parse_alternatives(group) ==
    LET parts == split_str(group, "|")
        flat[k \in 0..Len(parts)] ==
            IF k = 0 THEN <<>> ELSE flat[k - 1] \o parse_tokens(trim(parts[k]))
    IN  flat[Len(parts)]

\* the usage grammar read from the whole line, program name included
parse_usage_line_keeps_program_name(child_line, command_name) ==
    LET line == trim(child_line)
    IN  IF starts_with(line, "-") THEN <<>> ELSE parse_tokens(line)

\* the slice &line[idx + command_name.len()..] panics when its start is beyond
\* the end of the line (idx is counted from 0)
slice_panics(child_line, command_name) ==
    LET line0 == trim(child_line)
        idx   == find(line0, command_name)
    IN  idx > 0 /\ (idx - 1) + Len(command_name) > Len(line0)

ParseUsageLine[child_line \in STRING, command_name \in STRING] ==
    LET line0 == trim(child_line)
        idx   == find(line0, command_name)
        line1 == IF idx > 0 THEN SubSeq(line0, idx + Len(command_name), Len(line0)) ELSE line0
        line  == trim(line1)
    IN  IF starts_with(line, "-") THEN <<>> ELSE parse_tokens(line)
parse_usage_line(child_line, command_name) == ParseUsageLine[child_line, command_name]

(***************************************************************************)
(* cli_parser.rs: line classifier                                          *)
(***************************************************************************)
is_header_line(line) ==
    IF starts_with(line, " ") THEN FALSE
    ELSE IF contains(line, ":") THEN TRUE
    ELSE trim(line) # ""

\* flat_map(|s| s.split_whitespace())
FlatSplitWhitespaceOf[parts \in Seq(STRING)] ==
    LET flat[k \in 0..Len(parts)] ==
            IF k = 0 THEN <<>> ELSE flat[k - 1] \o split_whitespace(parts[k])
    IN  flat[Len(parts)]
FlatSplitWhitespace(parts) == FlatSplitWhitespaceOf[parts]

\* the flags in the order of the line, not sorted by length
unsorted(v) == v

\* slice::sort_by_key(|f| f.len()): stable, so element i goes behind every shorter
\* element and every earlier element of the same length
SortByLen[v \in Seq(STRING)] ==
    LET Rank(i) == Cardinality({j \in 1..Len(v) :
                                   \/ Len(v[j]) < Len(v[i])
                                   \/ (Len(v[j]) = Len(v[i]) /\ j <= i)})
    IN  [r \in 1..Len(v) |-> v[CHOOSE i \in 1..Len(v) : Rank(i) = r]]
sort_by_len(v) == SortByLen[v]

\* the loop without its second arm: no flag is ever stored as short
assign_long_only(flags) ==
    LET Longs == {i \in 1..Len(flags) : starts_with(flags[i], "--")}
    IN  [short |-> None,
         long |-> IF Longs = {} THEN None ELSE Some(flags[SetMin(Longs)])]

\* the loop of lines 92-98 over the sorted flags: the first `--` flag is long, the
\* first single-dash flag is short
AssignFlagsOf[flags \in Seq(STRING)] ==
    LET Longs == {i \in 1..Len(flags) : starts_with(flags[i], "--")}
        Shorts == {i \in 1..Len(flags) :
                      starts_with(flags[i], "-") /\ ~starts_with(flags[i], "--")}
    IN  [short |-> IF Shorts = {} THEN None ELSE Some(flags[SetMin(Shorts)]),
         long |-> IF Longs = {} THEN None ELSE Some(flags[SetMin(Longs)])]
AssignFlags(flags) == AssignFlagsOf[flags]

GetFlagLine[raw_flag_vec \in Seq(STRING), section_header_name \in STRING] ==
    LET IsFlagPart(part) == starts_with(part, "-") \/ contains(part, ",")
        NotFlag == {i \in 1..Len(raw_flag_vec) : ~IsFlagPart(raw_flag_vec[i])}
        cut == IF NotFlag = {} THEN Len(raw_flag_vec) + 1 ELSE SetMin(NotFlag)
        flag_part == SubSeq(raw_flag_vec, 1, cut - 1)
        description_parts == SubSeq(raw_flag_vec, cut, Len(raw_flag_vec))
        flag_definitions == split_str(join(flag_part, " "), ", ")
        flags_and_possible_type_vec == FlatSplitWhitespace(flag_definitions)
        actual_flags_vec == SelectSeq(flags_and_possible_type_vec,
                                      LAMBDA f : starts_with(f, "-"))
        data_type_vec == SelectSeq(flags_and_possible_type_vec,
                                   LAMBDA f : ~starts_with(f, "-") /\ trim(f) # "")
        data_type == IF data_type_vec = <<>> THEN None ELSE Some(data_type_vec[1])
        names == IF Len(actual_flags_vec) = 1
                 THEN IF starts_with(actual_flags_vec[1], "--")
                      THEN [short |-> None, long |-> Some(actual_flags_vec[1])]
                      ELSE [short |-> Some(actual_flags_vec[1]), long |-> None]
                 ELSE IF Len(actual_flags_vec) >= 2
                 THEN AssignFlags(sort_by_len(actual_flags_vec))
                 ELSE [short |-> None, long |-> None]
        description == IF description_parts # <<>> THEN Some(join(description_parts, " "))
                       ELSE None
    IN  [short |-> names.short, long |-> names.long, data_type |-> data_type,
         description |-> description, parent_header |-> section_header_name]
get_flag_line(raw_flag_vec, section_header_name) == GetFlagLine[raw_flag_vec, section_header_name]

\* a pattern that matches no line
matches_nothing(t) == FALSE

\* Regex ^\s*(-{1,2}\S+) on the trimmed line
flag_re(t) == starts_with(t, "-") /\ Len(t) >= 2 /\ ~IsWhitespace(Ch(t, 2))

command_headers == <<"commands", "available commands", "subcommands">>

\* Option<ChildLine>: the record carries line_type and the serialized value
parse_child_line(command, line, section_header_name) ==
    LET section_header == IF section_header_name.some THEN section_header_name.val ELSE "None"
        trimmed_line == trim(line)
        line_components == regex_split_ws(trimmed_line)
        lower == to_lowercase(section_header)
    IN  IF flag_re(trimmed_line)
        THEN Some([line_type |-> "Flag",
                   value |-> get_flag_line(line_components, section_header)])
        ELSE IF Len(line_components) = 1
        THEN LET usage_components == parse_usage_line(trimmed_line, command)
             IN  IF usage_components = <<>> THEN None
                 ELSE Some([line_type |-> "Other",
                            value |-> [line_contents |-> line_components[1],
                                       parent_header |-> section_header,
                                       components |-> Some(usage_components)]])
        ELSE IF contains(lower, "usage")
        THEN Some([line_type |-> "Usage",
                   value |-> [usage_string |-> trimmed_line,
                              parent_header |-> section_header,
                              usage_components |-> parse_usage_line(trimmed_line, command)]])
        ELSE IF contains(lower, "example")
        THEN Some([line_type |-> "Other",
                   value |-> [line_contents |-> line, parent_header |-> section_header,
                              components |-> None]])
        ELSE IF \E h \in 1..Len(command_headers) : contains(lower, command_headers[h])
        THEN Some([line_type |-> "Command",
                   value |-> [name |-> line_components[1],
                              description |-> join(Tail(line_components), " "),
                              parent_header |-> section_header,
                              children |-> <<>>,
                              parent |-> command]])
        ELSE Some([line_type |-> "Other",
                   value |-> [line_contents |-> line, parent_header |-> section_header,
                              components |-> None]])

HandleChildLine[command \in STRING, section_header_name \in STRING, line \in STRING] ==
    parse_child_line(command, line, Some(section_header_name))
handle_child_line(command, section_header_name, line) ==
    HandleChildLine[command, section_header_name, line]

(***************************************************************************)
(* The target program: what the operating system answers when the crawler  *)
(* runs `<program> <args...>`.  A raw output is what process::Output holds *)
(* (code = None when the process was killed by a signal).                  *)
(***************************************************************************)
RawOutput(stdout, stderr, code) == [stdout |-> stdout, stderr |-> stderr, code |-> code]

BaseCommand == "app"

\* help pages of the root command
RootPages ==
    { RawOutput("App description\nUsage:\n  app [command]\nAvailable Commands:\n  serve  Start the server\nFlags:\n  -h, --help   help for app\n",
                "", Some(0)),
      RawOutput("Tool\nCommands:\n  a  run a\n  b  run b\n  a  run a again", "", Some(0)),
      RawOutput("\n  Tool\nCommands:\n\ta  tabbed a\n b  one space\n  -q  quiet\n  solo\nExamples:\n  app a now",
                "", Some(0)),
      RawOutput("", "app: unknown flag --help", Some(1)) }

ServePages ==
    { RawOutput("Start the server\n\nFlags:\n  -p, --port int   Port", "", Some(0)),
      RawOutput("Flags:\n  --never-read", "serve: failed", Some(2)),
      RawOutput("", "", None) }

APages ==
    { RawOutput("Alpha\nSubcommands:\n  a  again a\n  b  then b", "", Some(0)),
      RawOutput("", "", Some(0)),
      RawOutput("usage error\nCommands:\n  b  hidden b", "bad", Some(1)),
      RawOutput("  \nCommands\n  b  only b\nOptions:\n  --all", "", Some(0)) }

BPages ==
    { RawOutput("Beta\nCommands:\n  a  back to a", "", Some(0)),
      RawOutput("", "b: no help", Some(2)),
      RawOutput("Beta leaf\nUsage:\n  app b <file>", "", Some(0)) }

VersionOutputs ==
    { RawOutput("v1.2.0\n", "", Some(0)),
      RawOutput("", "unknown command \"version\"", Some(1)) }

\* a program name that names no executable
Unspawnable ==
    [spawnable |-> FALSE,
     version |-> RawOutput("", "", None),
     help |-> [k \in {"app", "serve", "a", "b"} |-> RawOutput("", "", None)]]

Programs ==
    { [spawnable |-> TRUE, version |-> v,
       help |-> [app |-> r, serve |-> s, a |-> a, b |-> b]] :
         v \in VersionOutputs, r \in RootPages, s \in ServePages, a \in APages, b \in BPages }
    \cup { Unspawnable }

VARIABLES
    program,    \* the target program (fixed during a behaviour)
    pc,         \* "idle" | "crawling" | "done": position of extract_cli_structure
    visited,    \* the HashSet<String> of one crawl
    stack,      \* activation records of parse_help_output_dynamic, root first
    structure,  \* the root Value built by extract_cli_structure
    probes,     \* command strings handed to execute_full_command in this crawl, in order
    results,    \* the Value returned by each finished crawl
    call        \* one call of a parser function on its own: arguments and return value

vars == <<program, pc, visited, stack, structure, probes, results, call>>

\* no parser function is called on its own while the crawler runs
NoCall == [op |-> "none"]

\* std::process::Command::output() for the split command line
SpawnOutputOf[prog \in Programs, command_vec \in Seq(STRING)] ==
    IF Len(command_vec) >= 2 /\ command_vec[2] = "version" THEN prog.version
    ELSE IF Len(command_vec) >= 2 /\ last(command_vec) = "--help"
            /\ command_vec[Len(command_vec) - 1] \in DOMAIN prog.help
    THEN prog.help[command_vec[Len(command_vec) - 1]]
    ELSE RawOutput("", "unknown command", Some(1))
SpawnOutput(prog, command_vec) == SpawnOutputOf[prog, command_vec]

ExecuteFullCommand[prog \in Programs, command \in STRING] ==
    LET command_vec == split_whitespace(command)
    IN  IF prog.spawnable
        THEN LET output == SpawnOutput(prog, command_vec)
             IN  [stdout |-> trim(output.stdout),
                  stderr |-> trim(output.stderr),
                  status |-> IF output.code.some THEN output.code.val ELSE -1]
        ELSE [stdout |-> "",
              stderr |-> "Error executing command: No such file or directory",
              status |-> -1]
execute_full_command(prog, command) == ExecuteFullCommand[prog, command]

get_program_version(prog, program_name) ==
    LET version_output == execute_full_command(prog, program_name \o " version")
    IN  IF "stdout" \in DOMAIN version_output THEN version_output.stdout ELSE "Unknown"

(***************************************************************************)
(* cli_parser.rs: the crawler                                              *)
(***************************************************************************)
\* bounds of the model: crawls per behaviour, activation records on the stack
MaxCrawls == 2
MaxStack == 8

\* a cap that no stack of the model reaches
NoDepthCap == MaxStack + 1
\* lines 239 and 325: the literal 5
MaxDepth == 5

EmptyObject == [k \in {} |-> 0]

EmptyComponents ==
    [COMMAND |-> EmptyObject, FLAG |-> <<>>, USAGE |-> <<>>] @@ ("OTHER" :> <<>>)

\* json!({ "children": {} }), the value of the two early returns
EarlyReturn == [children |-> EmptyObject]

object_insert(obj, key, value) == (key :> value) @@ obj

\* line 239
beyond_depth_cap(depth) == depth > MaxDepth

\* line 325
within_depth_budget_off_by_one(depth) == depth <= MaxDepth
within_depth_budget(depth) == depth < MaxDepth

\* lines 243 and 290
never_visited(vis, command) == FALSE
already_visited(vis, command) == command \in vis

\* line 246
mark_visited(vis, command) == vis \cup {command}

\* lines 329-333
probe_always_ok(help_output) == TRUE
probe_succeeded(help_output) ==
    (IF "status" \in DOMAIN help_output THEN help_output.status ELSE -1) = 0

\* line 428
StaleVisited == visited
HashSet_new == {}

\* lines 248-256: the activation record of one call that got past the guards
NewFrame(command, output, depth, command_path, ret) ==
    LET lines == lines_of(output)
    IN  [command |-> command, command_path |-> command_path, depth |-> depth,
         lines |-> lines, i |-> 1,
         description |-> IF lines # <<>> /\ ~starts_with(lines[1], " ")
                         THEN Some(lines[1]) ELSE None,
         components |-> EmptyComponents,
         previous_section_header |-> None,
         current_section_header |-> None,
         cur |-> None,
         ret |-> ret]

\* lines 400-403
ParseResult(f) ==
    [description |-> IF f.description.some THEN f.description.val ELSE "",
     children |-> f.components]

Top == stack[Len(stack)]
Running == pc = "crawling" /\ stack # <<>>
AtLine == Running /\ Top.i <= Len(Top.lines)
CurLine == Top.lines[Top.i]

\* lines 259-280: what the loop body does with the current line of frame f
Classify(f) ==
    LET line == f.lines[f.i]
        base == IF split_whitespace(f.command) = <<>> THEN ""
                ELSE last(split_whitespace(f.command))
    IN  IF trim(line) = "" THEN [kind |-> "Blank"]
        ELSE IF is_header_line(line) THEN [kind |-> "Header"]
        ELSE IF f.current_section_header.some
                /\ (starts_with(line, "  ") \/ starts_with(line, "\t"))
        THEN LET r == handle_child_line(base, f.current_section_header.val, line)
             IN  IF r.some THEN [kind |-> r.val.line_type, value |-> r.val.value]
                 ELSE [kind |-> "Dropped"]
        ELSE [kind |-> "Dropped"]

Advance(f) == [f EXCEPT !.i = @ + 1, !.cur = None]

SetTop(f) == [stack EXCEPT ![Len(stack)] = f]

\* lines 344-376: the record of cmd_name after a successful probe
merge_child(cmd_obj, parsed, help_output, depth, child_command_path) ==
    LET c1 == object_insert(cmd_obj, "children", parsed.children)
        c2 == object_insert(c1, "outputs", [help_page |-> help_output])
        c3 == IF "description" \in DOMAIN parsed /\ parsed.description # ""
              THEN object_insert(c2, "description", parsed.description) ELSE c2
        c4 == object_insert(c3, "depth", depth + 1)
    IN  object_insert(c4, "command_path", child_command_path)

\* lines 344-347: the merge happens only when the entry is still in the map
MergeInto(f, cmd_name, parsed, help_output, child_command_path) ==
    IF cmd_name \in DOMAIN f.components.COMMAND
    THEN [f EXCEPT !.components.COMMAND =
            object_insert(@, cmd_name,
                          merge_child(@[cmd_name], parsed, help_output, f.depth,
                                      child_command_path))]
    ELSE f

Init ==
    /\ program \in Programs
    /\ pc = "idle"
    /\ visited = {}
    /\ stack = <<>>
    /\ structure = EmptyObject
    /\ probes = <<>>
    /\ results = <<>>
    /\ call = NoCall

\* extract_cli_structure up to the first line of the root's help text
StartCrawl ==
    /\ pc \in {"idle", "done"}
    /\ Len(results) < MaxCrawls
    /\ \E command_name \in {None} :
         LET current_command_name ==
                 IF command_name.some THEN BaseCommand \o " " \o command_name.val
                 ELSE BaseCommand
             version == get_program_version(program, BaseCommand)
             help_output == execute_full_command(program, current_command_name \o " --help")
             s0 == [name |-> current_command_name, description |-> "",
                    children |-> EmptyObject, outputs |-> [help_page |-> help_output],
                    version |-> version, depth |-> 0,
                    command_path |-> current_command_name]
             vis0 == HashSet_new
         IN  /\ probes' = <<BaseCommand \o " version", current_command_name \o " --help">>
             /\ IF beyond_depth_cap(0) \/ already_visited(vis0, current_command_name)
                THEN /\ visited' = vis0
                     /\ stack' = <<>>
                     /\ structure' = s0
                     /\ results' = Append(results, s0)
                     /\ pc' = "done"
                ELSE /\ visited' = mark_visited(vis0, current_command_name)
                     /\ stack' = <<NewFrame(current_command_name, help_output.stdout, 0,
                                            current_command_name, None)>>
                     /\ structure' = s0
                     /\ results' = results
                     /\ pc' = "crawling"
    /\ UNCHANGED <<call, program>>

\* lines 262-280: the loop reads the line it is at and classifies it
ReadLine ==
    /\ AtLine /\ ~Top.cur.some
    /\ stack' = SetTop([Top EXCEPT !.cur = Some(Classify(Top))])
    /\ UNCHANGED <<call, program, pc, visited, structure, probes, results>>

\* the classified line the loop body is working on
Classified(kind) == AtLine /\ Top.cur.some /\ Top.cur.val.kind = kind
Cur == Top.cur.val

\* lines 285-288: the names the Command arm computes
CmdName == Cur.value.name
ParentCommand == Top.command \o " " \o CmdName
ChildCommandPath == Top.command_path \o " " \o CmdName

\* lines 259-261
BlankLine ==
    /\ Classified("Blank")
    /\ stack' = SetTop(Advance(Top))
    /\ UNCHANGED <<call, program, pc, visited, structure, probes, results>>

\* lines 264-272
HeaderLine ==
    /\ Classified("Header")
    /\ LET trimmed_line == trim(CurLine)
           header == Some(strip_suffix(trimmed_line, ":"))
       IN  stack' = SetTop(Advance([Top EXCEPT !.current_section_header = header,
                                                !.previous_section_header = header]))
    /\ UNCHANGED <<call, program, pc, visited, structure, probes, results>>

\* a line that is neither blank nor a header and yields no child record
DroppedLine ==
    /\ Classified("Dropped")
    /\ stack' = SetTop(Advance(Top))
    /\ UNCHANGED <<call, program, pc, visited, structure, probes, results>>

\* lines 381-383
FlagLine ==
    /\ Classified("Flag")
    /\ stack' = SetTop(Advance([Top EXCEPT !.components.FLAG = Append(@, Cur.value)]))
    /\ UNCHANGED <<call, program, pc, visited, structure, probes, results>>

\* lines 384-389
UsageLine ==
    /\ Classified("Usage")
    /\ stack' = SetTop(Advance([Top EXCEPT !.components.USAGE = Append(@, Cur.value)]))
    /\ UNCHANGED <<call, program, pc, visited, structure, probes, results>>

\* lines 390-395
OtherLine ==
    /\ Classified("Other")
    /\ stack' = SetTop(Advance([Top EXCEPT !.components["OTHER"] = Append(@, Cur.value)]))
    /\ UNCHANGED <<call, program, pc, visited, structure, probes, results>>

\* lines 310-323: the child as first recorded, before any probe
RecordChild(f) ==
    [f EXCEPT !.components.COMMAND =
        object_insert(@, CmdName, object_insert(Cur.value, "children", EmptyComponents))]

\* lines 290-308
CommandVisited ==
    /\ Classified("Command")
    /\ already_visited(visited, ParentCommand)
    /\ LET c1 == object_insert(Cur.value, "children", EmptyComponents)
           c2 == object_insert(c1, "depth", Top.depth + 1)
           child_value == object_insert(c2, "command_path", ChildCommandPath)
       IN  stack' = SetTop(Advance([Top EXCEPT !.components.COMMAND =
                                        object_insert(@, CmdName, child_value)]))
    /\ UNCHANGED <<call, program, pc, visited, structure, probes, results>>

\* lines 310-325 when the depth budget is used up: recorded, not probed
CommandBeyondBudget ==
    /\ Classified("Command")
    /\ ~already_visited(visited, ParentCommand)
    /\ ~within_depth_budget(Top.depth)
    /\ stack' = SetTop(Advance(RecordChild(Top)))
    /\ UNCHANGED <<call, program, pc, visited, structure, probes, results>>

\* lines 310-334 when the probe does not exit with status 0
CommandProbeFailed ==
    /\ Classified("Command")
    /\ ~already_visited(visited, ParentCommand)
    /\ within_depth_budget(Top.depth)
    /\ ~probe_succeeded(execute_full_command(program, ParentCommand \o " --help"))
    /\ probes' = Append(probes, ParentCommand \o " --help")
    /\ stack' = SetTop(Advance(RecordChild(Top)))
    /\ UNCHANGED <<call, program, pc, visited, structure, results>>

\* lines 310-342: the probe exits with status 0 and parse_help_output_dynamic is
\* called for the child; its two early returns are merged at once
CommandRecurse ==
    /\ Classified("Command")
    /\ ~already_visited(visited, ParentCommand)
    /\ within_depth_budget(Top.depth)
    /\ Len(stack) < MaxStack
    /\ \E help_output \in {execute_full_command(program, ParentCommand \o " --help")} :
       /\ probe_succeeded(help_output)
       /\ probes' = Append(probes, ParentCommand \o " --help")
       /\ IF beyond_depth_cap(Top.depth + 1) \/ already_visited(visited, ParentCommand)
          THEN /\ visited' = visited
               /\ stack' = SetTop(Advance(MergeInto(RecordChild(Top), CmdName, EarlyReturn,
                                                    help_output, ChildCommandPath)))
          ELSE /\ visited' = mark_visited(visited, ParentCommand)
               /\ stack' = Append(SetTop(RecordChild(Top)),
                                  NewFrame(ParentCommand, help_output.stdout,
                                           Top.depth + 1, ChildCommandPath,
                                           Some([cmd_name |-> CmdName,
                                                 help_output |-> help_output])))
    /\ UNCHANGED <<call, program, pc, structure, results>>

\* lines 400-403 and 344-376: a child call returns and the caller merges it
ReturnToParent ==
    /\ Running /\ Top.i > Len(Top.lines)
    /\ Len(stack) > 1
    /\ LET caller == stack[Len(stack) - 1]
           merged == MergeInto(caller, Top.ret.val.cmd_name, ParseResult(Top),
                               Top.ret.val.help_output, Top.command_path)
       IN  stack' = Append(SubSeq(stack, 1, Len(stack) - 2), Advance(merged))
    /\ UNCHANGED <<call, program, pc, visited, structure, probes, results>>

\* lines 400-403 and 440-443: the root call returns
FinishCrawl ==
    /\ Running /\ Top.i > Len(Top.lines)
    /\ Len(stack) = 1
    /\ LET parsed == ParseResult(Top)
           final == [structure EXCEPT !.description = parsed.description,
                                      !.children = parsed.children]
       IN  /\ structure' = final
           /\ results' = Append(results, final)
    /\ stack' = <<>>
    /\ pc' = "done"
    /\ UNCHANGED <<call, program, visited, probes>>

CrawlStep ==
    \/ ReadLine
    \/ BlankLine
    \/ HeaderLine
    \/ DroppedLine
    \/ FlagLine
    \/ UsageLine
    \/ OtherLine
    \/ CommandVisited
    \/ CommandBeyondBudget
    \/ CommandProbeFailed
    \/ CommandRecurse
    \/ ReturnToParent
    \/ FinishCrawl

Next == StartCrawl \/ CrawlStep

Spec == Init /\ [][Next]_vars

\* every probe returns and the crawler is a single synchronous thread: a crawl
\* that has a step to take takes it
FairSpec == Spec /\ WF_vars(CrawlStep)

(***************************************************************************)
(* The parser functions on their own: parse_child_line and                 *)
(* parse_usage_line applied once to an input drawn from a bounded set.     *)
(***************************************************************************)
\* bounds of the generated inputs: characters after the leading dash of a flag
\* line, names on a well-formed flag line, characters of a usage text
MaxFlagChars == 5
MaxFlagNames == 3
MaxUsageChars == 4

\* the strings of at most n characters over an alphabet
WordsUpTo(alphabet, n) ==
    LET W[k \in 0..n] ==
            IF k = 0 THEN {""} ELSE W[k - 1] \cup {w \o c : w \in W[k - 1], c \in alphabet}
    IN  W[n]

\* the sequences of 1..n elements of S
SeqsUpTo(S, n) == UNION {[1..k -> S] : k \in 1..n}

Headers ==
    {"Flags", "Options", "Usage", "USAGE", "Examples", "Usage Examples",
     "Available Commands", "SUBCOMMANDS", "Commands", "Arguments"}

\* every text that begins with a dash, after two spaces of indentation
DashLines == {"  -" \o w : w \in WordsUpTo({"-", "a", "b", ",", " "}, MaxFlagChars)}

FlagNames == {"-v", "-a", "-vv", "--ab", "--xy", "--verbose"}
FlagSeparators == {", ", " "}
FlagDescriptions ==
    {<<>>, <<"Enable", "verbose", "output">>, <<"int", "Port", "number">>}

\* a well-formed flag line: names, one separator between them, description words
FlagLineText(names, sep, words) ==
    "  " \o join(names, sep) \o (IF words = <<>> THEN "" ELSE "   " \o join(words, " "))

ChildLines ==
    {"  serve  Start the server", "  serve", "  app [command]", "  app serve --port 80",
     "  -h, --help   help for app", "  --all", "  - x", "  -", "  [", "  <file>", "  a|b",
     "\tbuild   Build it", "  app", "  $ app serve", "  --port int   Port"}

\* one call of parse_child_line; parts holds the names, separator and description
\* words a well-formed flag line was composed from
ChildLineCall(line, header, parts) ==
    [op |-> "parse_child_line", command |-> "app", line |-> line, header |-> header,
     parts |-> parts, returned |-> FALSE, ret |-> <<>>]

ChildLineCalls ==
    {ChildLineCall(l, h, <<>>) : l \in ChildLines, h \in Headers}
    \cup
    {ChildLineCall(FlagLineText(<<"-v", "--verbose">>, ", ", w), h,
                   <<<<"-v", "--verbose">>, ", ", w>>) : w \in FlagDescriptions, h \in Headers}
    \cup
    {ChildLineCall(l, "Flags", <<>>) : l \in DashLines}
    \cup
    {ChildLineCall(FlagLineText(names, sep, w), "Flags", <<names, sep, w>>) :
        names \in SeqsUpTo(FlagNames, MaxFlagNames), sep \in FlagSeparators,
        w \in FlagDescriptions}

UsageExamples ==
    {"[--foo]...", "[--foo...]", "[--foo] [--bar baz]", "(--a|--b)", "(a b|c)",
     "(a|[b|c])", "(a|(b|c))", "[a [b] c]", "[[a]]", "[x (a|b)]", "[a] b", "[a [b]",
     "(a", "<file>...", "<key>=<value>", "--out=FILE", "[--all] <name>", "serve now",
     "<file>[--opt]", "<file> [--opt]", "<file>(a|b)"}

UsageTexts ==
    UsageExamples \cup WordsUpTo({"a", "[", "]", "(", ")", "|", " "}, MaxUsageChars)

\* command paths of crawled nodes
CommandPaths == {"app", "app serve", "app a", "git remote add", "cmd"}

\* one call of parse_usage_line; parts holds the command path and the text after it
UsageLineCall(path, r) ==
    [op |-> "parse_usage_line", command |-> last(split_whitespace(path)),
     line |-> path \o " " \o r, header |-> "", parts |-> <<path, r>>,
     returned |-> FALSE, ret |-> <<>>]

\* base commands that stand nowhere, at the end or twice in the line
ForeignCalls ==
    {[op |-> "parse_usage_line", command |-> c, line |-> r, header |-> "",
      parts |-> <<"", r>>, returned |-> FALSE, ret |-> <<>>] :
        c \in {"tool", "baz", "a"}, r \in UsageExamples}

UsageLineCalls ==
    {UsageLineCall("cmd", r) : r \in UsageTexts}
    \cup
    {UsageLineCall(path, r) : path \in CommandPaths, r \in UsageExamples}
    \cup ForeignCalls

ParserInit ==
    /\ call \in ChildLineCalls \cup UsageLineCalls
    /\ program = Unspawnable
    /\ pc = "idle"
    /\ visited = {}
    /\ stack = <<>>
    /\ structure = EmptyObject
    /\ probes = <<>>
    /\ results = <<>>

CallParseChildLine ==
    /\ call.op = "parse_child_line" /\ ~call.returned
    /\ call' = [call EXCEPT !.returned = TRUE,
                            !.ret = parse_child_line(call.command, call.line,
                                                     Some(call.header))]
    /\ UNCHANGED <<program, pc, visited, stack, structure, probes, results>>

CallParseUsageLine ==
    /\ call.op = "parse_usage_line" /\ ~call.returned
    /\ call' = [call EXCEPT !.returned = TRUE,
                            !.ret = parse_usage_line(call.line, call.command)]
    /\ UNCHANGED <<program, pc, visited, stack, structure, probes, results>>

ParserNext == CallParseChildLine \/ CallParseUsageLine

ParserSpec == ParserInit /\ [][ParserNext]_vars

(***************************************************************************)
(* Vocabulary of the properties                                            *)
(***************************************************************************)
(***************************************************************************)
(* comparison.rs: the diff of two stored trees.  A serde_json::Value is a  *)
(* record of its kind t and its content v.  HashSet and HashMap iterate in *)
(* an order that depends on the random keys of their hasher, so a loop     *)
(* over one of them may run in any order: the functions below give the set *)
(* of change lists an evaluation can return.                               *)
(***************************************************************************)
Null == [t |-> "null", v |-> ""]
Str(s) == [t |-> "string", v |-> s]
Arr(s) == [t |-> "array", v |-> s]
Obj(f) == [t |-> "object", v |-> f]

\* Value::get(key), Value::as_object, Value::as_array, Value::as_str
get(value, key) ==
    IF value.t = "object" /\ key \in DOMAIN value.v THEN Some(value.v[key]) ELSE None
as_object(o) == IF o.some /\ o.val.t = "object" THEN Some(o.val.v) ELSE None
as_array(o) == IF o.some /\ o.val.t = "array" THEN Some(o.val.v) ELSE None
as_str(o) == IF o.some /\ o.val.t = "string" THEN Some(o.val.v) ELSE None
and_then_get(o, key) == IF o.some THEN get(o.val, key) ELSE None
unwrap_or(o, d) == IF o.some THEN o.val ELSE d

\* the enumerations of a finite set: the orders an iteration over it may take
Orders(S) ==
    {f \in [1..Cardinality(S) -> S] : \A i, j \in 1..Cardinality(S) : f[i] = f[j] => i = j}

CommandAdded(parent, command) ==
    [type |-> "CommandAdded", parent |-> parent, command |-> command]
CommandRemoved(parent, command) ==
    [type |-> "CommandRemoved", parent |-> parent, command |-> command]
FlagAdded(command, flag) == [type |-> "FlagAdded", command |-> command, flag |-> flag]
FlagRemoved(command, flag) == [type |-> "FlagRemoved", command |-> command, flag |-> flag]
FlagDescriptionChanged(command, flag, old_desc, new_desc) ==
    [type |-> "FlagDescriptionChanged", command |-> command, flag |-> flag,
     old_desc |-> old_desc, new_desc |-> new_desc]
FlagDataTypeChanged(command, flag, old_type, new_type) ==
    [type |-> "FlagDataTypeChanged", command |-> command, flag |-> flag,
     old_type |-> old_type, new_type |-> new_type]

extract_flags_from_json(node) ==
    unwrap_or(as_array(and_then_get(get(node, "children"), "FLAG")), <<>>)

\* a signature that is the short name whatever the long name
signature_is_short(flag) == unwrap_or(as_str(get(flag, "short")), "")

get_flag_signature(flag) ==
    LET long == unwrap_or(as_str(get(flag, "long")), "")
        short == unwrap_or(as_str(get(flag, "short")), "")
    IN  IF long # "" THEN long ELSE short

format_flag_display(flag) ==
    LET long == unwrap_or(as_str(get(flag, "long")), "")
        short == unwrap_or(as_str(get(flag, "short")), "")
    IN  IF short # "" /\ long # "" THEN short \o "/" \o long
        ELSE IF short # "" THEN short
        ELSE IF long # "" THEN long
        ELSE "unknown"

\* collect() into a HashMap keyed by signature: a later flag replaces an earlier
\* one of the same signature
FlagMap(flags) ==
    [key \in {get_flag_signature(flags[i]) : i \in 1..Len(flags)} |->
        flags[SetMax({i \in 1..Len(flags) : get_flag_signature(flags[i]) = key})]]

\* the changes pushed for one key of the last loop of compare_flags_json
FlagChanges(from_flag, to_flag, command_path) ==
    LET flag_name == format_flag_display(from_flag)
        from_desc == unwrap_or(as_str(get(from_flag, "description")), "")
        to_desc == unwrap_or(as_str(get(to_flag, "description")), "")
        from_type == as_str(get(from_flag, "data_type"))
        to_type == as_str(get(to_flag, "data_type"))
    IN  (IF from_desc # to_desc
         THEN <<FlagDescriptionChanged(command_path, flag_name, from_desc, to_desc)>>
         ELSE <<>>)
        \o (IF from_type # to_type
            THEN <<FlagDataTypeChanged(command_path, flag_name, from_type, to_type)>>
            ELSE <<>>)

\* the concatenation of parts[order[k]], parts[order[k+1]], ...
RECURSIVE Flatten(_, _, _)
Flatten(parts, order, k) ==
    IF k > Len(order) THEN <<>> ELSE parts[order[k]] \o Flatten(parts, order, k + 1)

compare_flags_json(from, to, command_path) ==
    LET from_flag_map == FlagMap(extract_flags_from_json(from))
        to_flag_map == FlagMap(extract_flags_from_json(to))
        added == {k \in DOMAIN to_flag_map : k \notin DOMAIN from_flag_map}
        removed == {k \in DOMAIN from_flag_map : k \notin DOMAIN to_flag_map}
        common == {k \in DOMAIN from_flag_map : k \in DOMAIN to_flag_map}
        changed == [k \in common |->
                       FlagChanges(from_flag_map[k], to_flag_map[k], command_path)]
    IN  {[i \in 1..Len(a) |-> FlagAdded(command_path, format_flag_display(to_flag_map[a[i]]))]
         \o [i \in 1..Len(r) |->
                FlagRemoved(command_path, format_flag_display(from_flag_map[r[i]]))]
         \o Flatten(changed, c, 1) :
            a \in Orders(added), r \in Orders(removed), c \in Orders(common)}

\* the name of the command alone, whatever lies above it
name_only(parent_path, command_name) == command_name

\* the path of a command below parent_path
current_path(parent_path, command_name) ==
    IF parent_path = "" THEN command_name ELSE parent_path \o " " \o command_name

\* the change lists one traversal may push, command after command in this order
RECURSIVE CommonChanges(_, _, _, _, _)
RECURSIVE compare_commands_json(_, _, _)

CommonChanges(from_cmds, to_cmds, parent_path, order, k) ==
    IF k > Len(order) THEN {<<>>}
    ELSE LET name == order[k]
             path == current_path(parent_path, name)
         IN  {f \o c \o rest :
                 f \in compare_flags_json(from_cmds[name], to_cmds[name], path),
                 c \in compare_commands_json(from_cmds[name], to_cmds[name], path),
                 rest \in CommonChanges(from_cmds, to_cmds, parent_path, order, k + 1)}

compare_commands_json(from, to, parent_path) ==
    LET from_commands == as_object(and_then_get(get(from, "children"), "COMMAND"))
        to_commands == as_object(and_then_get(get(to, "children"), "COMMAND"))
        from_set == IF from_commands.some THEN DOMAIN from_commands.val ELSE {}
        to_set == IF to_commands.some THEN DOMAIN to_commands.val ELSE {}
    IN  {[i \in 1..Len(a) |-> CommandAdded(parent_path, a[i])]
         \o [i \in 1..Len(r) |-> CommandRemoved(parent_path, r[i])]
         \o rest :
            a \in Orders(to_set \ from_set), r \in Orders(from_set \ to_set),
            rest \in UNION {CommonChanges(unwrap_or(from_commands, <<>>),
                                          unwrap_or(to_commands, <<>>),
                                          parent_path, c, 1) :
                            c \in Orders(from_set \cap to_set)}}

\* Result<Vec<ChangeType>, Box<dyn Error>>
Ok(changes) == [ok |-> TRUE, changes |-> changes]
Err(error) == [ok |-> FALSE, error |-> error]

\* a file: whether it can be read, and the JSON value its text stands for, if any
File(readable, json) == [readable |-> readable, json |-> json]

\* the results an evaluation of compare_json_structures may return
compare_json_structures(from_file, to_file) ==
    IF ~from_file.readable \/ ~to_file.readable THEN {Err("io")}
    ELSE IF ~from_file.json.some \/ ~to_file.json.some THEN {Err("json")}
    ELSE {Ok(changes) :
             changes \in compare_commands_json(from_file.json.val, to_file.json.val, "")}

(***************************************************************************)
(* The diff on its own: compare_json_structures evaluated on two files.    *)
(***************************************************************************)
\* how often the diff of one pair of files is evaluated
MaxEvaluations == 2

\* Option<String> as serde writes it
Opt(o) == IF o.some THEN Str(o.val) ELSE Null

\* a LineFlag as the crawler stores it
Flag(short, long, description, data_type) ==
    Obj([short |-> Opt(short), long |-> Opt(long), description |-> Opt(description),
         data_type |-> Opt(data_type), parent_header |-> Str("Flags")])

\* a command node as the crawler stores it: the keys the diff reads
Node(name, flags, commands) ==
    Obj([name |-> Str(name),
         children |-> Obj([COMMAND |-> Obj(commands), FLAG |-> Arr(flags)])])

NoCommands == <<>>

Verbose == Flag(Some("-v"), Some("--verbose"), Some("Verbose"), None)
VerboseReworded == Flag(Some("-v"), Some("--verbose"), Some("More output"), None)
VerboseLongOnly == Flag(None, Some("--verbose"), None, None)
Port == Flag(Some("-p"), None, Some("Port"), Some("int"))
PortUntyped == Flag(Some("-p"), None, Some("Port"), None)

FlagLists ==
    {<<>>, <<Verbose, Port>>, <<VerboseReworded, PortUntyped>>, <<VerboseLongOnly>>,
     <<Port, Verbose>>}

\* the nodes a name may stand for below `a`
Below(name) ==
    IF name = "c"
    THEN {Node("c", <<>>, NoCommands),
          Node("c", <<Verbose>>, "e" :> Node("e", <<>>, NoCommands))}
    ELSE {Node(name, <<>>, NoCommands)}

CommandMaps(names) ==
    {m \in UNION {[S -> UNION {Below(n) : n \in names}] : S \in SUBSET names} :
        \A n \in DOMAIN m : m[n] \in Below(n)}

ANodes ==
    {Node("a", fl, NoCommands) : fl \in FlagLists}
    \cup {Node("a", fl, m) : fl \in {<<>>, <<Verbose, Port>>},
                             m \in CommandMaps({"c", "d"}) \ {NoCommands}}

RootMaps ==
    {m \in UNION {[S -> ANodes \cup {Node("b", <<>>, NoCommands)}] : S \in SUBSET {"a", "b"}} :
        \A n \in DOMAIN m : IF n = "a" THEN m[n] \in ANodes
                            ELSE m[n] = Node("b", <<>>, NoCommands)}

Trees == {Node("app", fl, m) : fl \in {<<>>, <<Verbose>>}, m \in RootMaps}

\* files that cannot be read, that hold no JSON, that hold JSON which is no tree
Unreadable == File(FALSE, None)
Garbage == File(TRUE, None)
NoTrees ==
    {File(TRUE, Some(v)) :
        v \in {Obj(<<>>), Arr(<<>>), Str("app"),
               Obj([children |-> Obj([COMMAND |-> Arr(<<>>)])])}}

Files == {File(TRUE, Some(tree)) : tree \in Trees} \cup NoTrees \cup {Unreadable, Garbage}

DiffInit ==
    /\ call \in {[op |-> "compare_json_structures", from |-> f, to |-> t, runs |-> <<>>] :
                    f \in Files, t \in Files}
    /\ program = Unspawnable
    /\ pc = "idle"
    /\ visited = {}
    /\ stack = <<>>
    /\ structure = EmptyObject
    /\ probes = <<>>
    /\ results = <<>>

CompareJsonStructures ==
    /\ call.op = "compare_json_structures"
    /\ Len(call.runs) < MaxEvaluations
    /\ \E result \in compare_json_structures(call.from, call.to) :
           call' = [call EXCEPT !.runs = Append(@, result)]
    /\ UNCHANGED <<program, pc, visited, stack, structure, probes, results>>

DiffNext == CompareJsonStructures

DiffSpec == DiffInit /\ [][DiffNext]_vars

TopOf(st) == st[Len(st)]

\* every command node below `children`, with the command string that names it
RECURSIVE Nodes(_, _, _)
Nodes(children, command, depth) ==
    IF "COMMAND" \notin DOMAIN children THEN {}
    ELSE UNION { {[cmd |-> command \o " " \o n, name |-> n, depth |-> depth + 1,
                   rec |-> children.COMMAND[n]]}
                 \cup Nodes(children.COMMAND[n].children, command \o " " \o n, depth + 1) :
                 n \in DOMAIN children.COMMAND }

\* the nodes recorded so far by the calls in progress, and those of the finished tree
NodesInProgress ==
    UNION { Nodes(stack[k].components, stack[k].command, stack[k].depth) :
            k \in 1..Len(stack) }
FinalNodes == IF pc = "done" THEN Nodes(structure.children, structure.name, 0) ELSE {}

HelpProbe(cmd) == cmd \o " --help"
IsProbed(cmd) == \E i \in 1..Len(probes) : probes[i] = HelpProbe(cmd)
\* levels below the root of the command a probe string names
ProbeDepth(p) == Len(split_whitespace(p)) - 2
HelpStatus(cmd) == execute_full_command(program, HelpProbe(cmd)).status
SelfListing == contains(program.help.a.stdout, "  a  ")

(***************************************************************************)
(* C1: every crawl terminates: once extract_cli_structure has started, it  *)
(* reaches Done, also for programs whose help pages list a subcommand      *)
(* again at every level (the chain of recursive probes is cut by the cap). *)
(* Checked under FairSpec: the crawler is one synchronous thread and every *)
(* probe returns, so a crawl that can take a step takes it.                *)
(***************************************************************************)
CrawlTerminates == (pc = "crawling") ~> (pc = "done")

\* a finished crawl of a program whose page for `a` lists `a` again, probed down to the cap
CyclicCrawlDone ==
    /\ pc = "done"
    /\ SelfListing
    /\ IsProbed("app a a a a a")

(***************************************************************************)
(* C2: a Command line whose "C N" string is already in the visited set     *)
(* records N in C's COMMAND map with empty children, and that line issues  *)
(* no probe and starts no recursion.                                       *)
(***************************************************************************)
VisitedChildIsLeafNotProbed ==
    [][ (Classified("Command") /\ ParentCommand \in visited)
        => /\ probes' = probes
           /\ visited' = visited
           /\ Len(stack') = Len(stack)
           /\ TopOf(stack').i = Top.i + 1
           /\ CmdName \in DOMAIN TopOf(stack').components.COMMAND
           /\ TopOf(stack').components.COMMAND[CmdName].children = EmptyComponents ]_vars

\* a child recorded by the visited arm: it has a depth, empty children and no outputs
VisitedChildRecorded ==
    \E k \in 1..Len(stack) : \E n \in DOMAIN stack[k].components.COMMAND :
        /\ (stack[k].command \o " " \o n) \in visited
        /\ "depth" \in DOMAIN stack[k].components.COMMAND[n]
        /\ "outputs" \notin DOMAIN stack[k].components.COMMAND[n]
        /\ stack[k].components.COMMAND[n].children = EmptyComponents

(***************************************************************************)
(* C3: with the cap of 5, commands at depth 1..5 are probed; a command     *)
(* found deeper is recorded with its name and description and empty        *)
(* children and is never probed; no probe names a command deeper than 5    *)
(* and no node lies deeper than depth 6.                                   *)
(***************************************************************************)
DepthCapRespected ==
    /\ \A i \in 1..Len(probes) : ProbeDepth(probes[i]) <= MaxDepth
    /\ \A nd \in NodesInProgress \cup FinalNodes :
        /\ nd.depth <= MaxDepth + 1
        /\ nd.depth <= MaxDepth => IsProbed(nd.cmd)
        /\ nd.depth > MaxDepth =>
              /\ ~IsProbed(nd.cmd)
              /\ nd.rec.name = nd.name
              /\ "description" \in DOMAIN nd.rec
              /\ nd.rec.children = EmptyComponents

\* a finished tree that holds a node six levels below the root
NodeBeyondCapRecorded ==
    \E nd \in FinalNodes : nd.depth = MaxDepth + 1 /\ nd.rec.description # ""

(***************************************************************************)
(* C4: a child whose probe fails (spawn failure or signal: status -1, or a *)
(* non-zero exit, even with stdout) stays in the parent's COMMAND map with *)
(* its listed name and description and empty children, and the crawl goes  *)
(* on with the next line: later siblings are still probed and recorded.    *)
(***************************************************************************)
FailedProbeStep ==
    (Classified("Command") /\ ParentCommand \notin visited /\ Top.depth < MaxDepth
     /\ HelpStatus(ParentCommand) # 0)
    => /\ pc' = "crawling"
       /\ Len(stack') = Len(stack)
       /\ TopOf(stack').lines = Top.lines
       /\ TopOf(stack').i = Top.i + 1
       /\ TopOf(stack').components.COMMAND[CmdName] =
              object_insert(Cur.value, "children", EmptyComponents)
       /\ TopOf(stack').components.COMMAND[CmdName].name = CmdName

FailedChildrenAreLeaves ==
    \A nd \in NodesInProgress \cup FinalNodes :
        (nd.depth <= MaxDepth /\ HelpStatus(nd.cmd) # 0)
        => /\ nd.rec.children = EmptyComponents
           /\ nd.rec.name = nd.name
           /\ "outputs" \notin DOMAIN nd.rec

SiblingsOfFailedChildKept ==
    (pc = "done" /\ starts_with(structure.outputs.help_page.stdout, "Tool\nCommands:\n  a"))
    => /\ DOMAIN structure.children.COMMAND = {"a", "b"}
       /\ IsProbed("app a") /\ IsProbed("app b")
       /\ (HelpStatus("app b") = 0 => "outputs" \in DOMAIN structure.children.COMMAND["b"])

FailedProbeDoesNotAbort ==
    /\ [][FailedProbeStep]_vars
    /\ [](FailedChildrenAreLeaves /\ SiblingsOfFailedChildKept)

\* a finished crawl in which `a` failed with text on stdout and its later sibling was crawled
FailedProbeThenSibling ==
    /\ pc = "done"
    /\ "a" \in DOMAIN structure.children.COMMAND
    /\ "b" \in DOMAIN structure.children.COMMAND
    /\ HelpStatus("app a") = 1
    /\ program.help.a.stdout # ""
    /\ structure.children.COMMAND["a"].children = EmptyComponents
    /\ "outputs" \in DOMAIN structure.children.COMMAND["b"]

(***************************************************************************)
(* C5: during one crawl the visited set only grows and holds every command *)
(* string whose --help has been probed, whether the probe succeeded or     *)
(* failed, so that no command string is probed more than once in a crawl.  *)
(***************************************************************************)
ProbedOnceAndVisited ==
    /\ \A i \in 1..Len(probes) :
          ends_with(probes[i], " --help")
          => SubSeq(probes[i], 1, Len(probes[i]) - Len(" --help")) \in visited
    /\ \A i, j \in 1..Len(probes) : probes[i] = probes[j] => i = j

(***************************************************************************)
(* C6: a child within the depth budget whose probe exits with status 0     *)
(* ends with outputs.help_page = the capture of that probe, depth = parent *)
(* depth + 1, command_path = parent command_path + " " + name, and the     *)
(* description of its own help text when that text has one.                *)
(***************************************************************************)
SuccessfulProbeRecord ==
    \A nd \in FinalNodes :
        (nd.depth <= MaxDepth /\ HelpStatus(nd.cmd) = 0)
        => LET help_output == execute_full_command(program, HelpProbe(nd.cmd))
               lines == lines_of(help_output.stdout)
           IN  /\ "outputs" \in DOMAIN nd.rec
               /\ nd.rec.outputs.help_page = help_output
               /\ "depth" \in DOMAIN nd.rec /\ nd.rec.depth = nd.depth
               /\ "command_path" \in DOMAIN nd.rec /\ nd.rec.command_path = nd.cmd
               /\ (lines # <<>> /\ ~starts_with(lines[1], " ") /\ lines[1] # "")
                  => nd.rec.description = lines[1]

(***************************************************************************)
(* C7: each crawl issues exactly one `<program> version` call, and the     *)
(* root's version is "Unknown" whenever that call fails (the program       *)
(* cannot be spawned or the call exits with a failure).                    *)
(***************************************************************************)
VersionProbe == BaseCommand \o " version"
VersionCallFailed == execute_full_command(program, VersionProbe).status # 0

VersionUnknownOnFailure ==
    pc # "idle"
    => /\ Cardinality({i \in 1..Len(probes) : probes[i] = VersionProbe}) = 1
       /\ VersionCallFailed => structure.version = "Unknown"

(***************************************************************************)
(* C8: the crawl of the `app` example (a description line, then Usage,     *)
(* Available Commands and Flags sections with two-space-indented lines)    *)
(* yields description "App description", the COMMAND key serve, the FLAG   *)
(* record -h/--help "help for app", and the USAGE record "app [command]"   *)
(* whose components, parsed after the program name, are one Group with the *)
(* single child Keyword command.                                           *)
(***************************************************************************)
AppExamplePage ==
    "App description\nUsage:\n  app [command]\nAvailable Commands:\n  serve  Start the server\nFlags:\n  -h, --help   help for app"

AppExampleCrawled ==
    /\ pc = "done"
    /\ program.spawnable
    /\ structure.outputs.help_page.stdout = AppExamplePage

AppExampleTree ==
    AppExampleCrawled
    => /\ structure.description = "App description"
       /\ DOMAIN structure.children.COMMAND = {"serve"}
       /\ structure.children.COMMAND["serve"].name = "serve"
       /\ structure.children.COMMAND["serve"].parent_header = "Available Commands"
       /\ structure.children.FLAG =
              << [short |-> Some("-h"), long |-> Some("--help"), data_type |-> None,
                  description |-> Some("help for app"), parent_header |-> "Flags"] >>
       /\ structure.children.USAGE =
              << [usage_string |-> "app [command]", parent_header |-> "Usage",
                  usage_components |->
                      << UsageComponent("Group", "", FALSE, FALSE, FALSE, <<>>,
                             << UsageComponent("Keyword", "command", TRUE, FALSE, FALSE,
                                               <<>>, <<>>) >>) >>] >>
       /\ structure.children["OTHER"] = <<>>

\* the example has been crawled and its serve page, with a flag of its own, merged
AppExampleDone ==
    /\ AppExampleCrawled
    /\ Len(structure.children.USAGE) = 1
    /\ "outputs" \in DOMAIN structure.children.COMMAND["serve"]
    /\ Len(structure.children.COMMAND["serve"].children.FLAG) = 1

(***************************************************************************)
(* C9: two crawls of one program whose probes answer the same both times   *)
(* return identical trees, and a crawl starts with a fresh visited set and *)
(* at depth 0 whatever the crawl before it left behind.                    *)
(***************************************************************************)
CrawlStartsFresh ==
    (pc \in {"idle", "done"} /\ pc' = "crawling")
    => /\ visited' = {BaseCommand}
       /\ Len(stack') = 1
       /\ stack'[1].depth = 0

CrawlsIdentical ==
    /\ [](\A i, j \in 1..Len(results) : results[i] = results[j])
    /\ [][CrawlStartsFresh]_vars

\* a second crawl has returned a tree with crawled children
TwoCrawlsWithChildren ==
    /\ Len(results) = 2
    /\ "COMMAND" \in DOMAIN results[2].children
    /\ \E n \in DOMAIN results[2].children.COMMAND :
           "outputs" \in DOMAIN results[2].children.COMMAND[n]

(***************************************************************************)
(* C10: a line is treated as a section header exactly when it does not     *)
(* start with a space or a tab and it contains a colon or is non-empty     *)
(* after trimming; an indented line never becomes the active section.      *)
(***************************************************************************)
HeaderExactlyWhenUnindented ==
    (AtLine /\ Top.cur.some)
    => ( (Cur.kind = "Header")
         <=> /\ ~starts_with(CurLine, " ")
             /\ ~starts_with(CurLine, "\t")
             /\ (contains(CurLine, ":") \/ trim(CurLine) # "") )

(***************************************************************************)
(* Vocabulary of the parser properties                                     *)
(***************************************************************************)
Returned(op) == call.op = op /\ call.returned

\* the element of names that satisfies P, is the shortest such, and among the
\* shortest is met first; None when no element satisfies P
ShortestFirst(names, P(_)) ==
    LET I == {i \in 1..Len(names) : P(names[i])}
    IN  IF I = {} THEN None
        ELSE Some(names[CHOOSE i \in I :
                            \A j \in I : \/ Len(names[i]) < Len(names[j])
                                         \/ (Len(names[i]) = Len(names[j]) /\ i <= j)])

DoubleDash(name) == starts_with(name, "--")
SingleDash(name) == starts_with(name, "-") /\ ~starts_with(name, "--")

\* the Flag record a well-formed flag line stands for
FlagOf(names, words, header) ==
    [short |-> IF Len(names) = 1
               THEN IF DoubleDash(names[1]) THEN None ELSE Some(names[1])
               ELSE ShortestFirst(names, SingleDash),
     long |-> IF Len(names) = 1
              THEN IF DoubleDash(names[1]) THEN Some(names[1]) ELSE None
              ELSE ShortestFirst(names, DoubleDash),
     data_type |-> None,
     description |-> IF words = <<>> THEN None ELSE Some(join(words, " ")),
     parent_header |-> header]

IsFlagCall == Returned("parse_child_line") /\ call.parts # <<>>

\* C11: a line of one or more flag names followed by description words is a Flag
\* whose long is the shortest `--` name and whose short is the shortest single-dash
\* name (the first of the shortest; a lone name goes to long or short by its
\* dashes), whose description is the remaining words joined by single spaces
\* (None without words), under whatever header the line stands.
FlagNamesAndDescription ==
    IsFlagCall =>
        call.ret = Some([line_type |-> "Flag",
                         value |-> FlagOf(call.parts[1], call.parts[3], call.header)])

\* `  -v, --verbose   Enable verbose output` was parsed under the Usage header
VerboseFlagParsed ==
    /\ IsFlagCall
    /\ call.line = "  -v, --verbose   Enable verbose output"
    /\ call.header = "Usage"
    /\ call.ret.val.value.short = Some("-v")
    /\ call.ret.val.value.long = Some("--verbose")
    /\ call.ret.val.value.description = Some("Enable verbose output")
    /\ call.ret.val.value.data_type = None

HasName(flag) == flag.short.some \/ flag.long.some

\* the FLAG collections of a components object and of every command below it
RECURSIVE FlagEntries(_)
FlagEntries(components) ==
    IF "FLAG" \notin DOMAIN components THEN {}
    ELSE {components.FLAG[i] : i \in 1..Len(components.FLAG)}
         \cup UNION {FlagEntries(components.COMMAND[n].children) :
                     n \in DOMAIN components.COMMAND}

\* C12: every Flag record returned by the classifier, whatever the line that starts
\* with a dash and a non-blank character, has a short or a long name, and so has
\* every entry of every FLAG collection of a tree being built or finished.
FlagHasShortOrLong ==
    /\ (Returned("parse_child_line") /\ call.ret.some /\ call.ret.val.line_type = "Flag")
           => HasName(call.ret.val.value)
    /\ \A k \in 1..Len(stack) : \A f \in FlagEntries(stack[k].components) : HasName(f)
    /\ pc = "done" => \A f \in FlagEntries(structure.children) : HasName(f)

\* a line of two single-dash tokens was classified: only short is present
TwoShortFlagsParsed ==
    /\ Returned("parse_child_line")
    /\ call.line = "  -a -b"
    /\ call.ret.val.line_type = "Flag"
    /\ call.ret.val.value.short = Some("-a")
    /\ call.ret.val.value.long = None

\* the line begins, after its indentation, with a dash followed by a non-blank
FlagPattern(line) ==
    LET tokens == split_whitespace(line)
    IN  tokens # <<>> /\ starts_with(tokens[1], "-") /\ Len(tokens[1]) >= 2

OtherVerbatim(line, header) ==
    Some([line_type |-> "Other",
          value |-> [line_contents |-> line, parent_header |-> header,
                     components |-> None]])

\* what the first matching rule of the priority order gives for a line
FirstMatchingRule(command, line, header) ==
    LET tokens == split_whitespace(line)
        lower == to_lowercase(header)
        parsed == parse_usage_line(trim(line), command)
    IN  IF FlagPattern(line)
        THEN Some([line_type |-> "Flag", value |-> get_flag_line(tokens, header)])
        ELSE IF Len(tokens) = 1
        THEN IF parsed = <<>> THEN None
             ELSE Some([line_type |-> "Other",
                        value |-> [line_contents |-> tokens[1], parent_header |-> header,
                                   components |-> Some(parsed)]])
        ELSE IF contains(lower, "usage")
        THEN Some([line_type |-> "Usage",
                   value |-> [usage_string |-> trim(line), parent_header |-> header,
                              usage_components |-> parsed]])
        ELSE IF contains(lower, "example")
        THEN OtherVerbatim(line, header)
        ELSE IF contains(lower, "commands")
        THEN Some([line_type |-> "Command",
                   value |-> [name |-> tokens[1],
                              description |-> join(Tail(tokens), " "),
                              parent_header |-> header, children |-> <<>>,
                              parent |-> command]])
        ELSE OtherVerbatim(line, header)

\* C13: the classifier returns what the first matching rule gives, in the order
\* flag pattern, single token, usage header, example header, commands header,
\* otherwise; so under a commands header a line with the flag pattern is a Flag and
\* a single-token line is not a Command, and under a header with both `usage` and
\* `example` a line of several tokens is a Usage record.
FirstMatchingRuleWins ==
    Returned("parse_child_line") =>
        /\ call.ret = FirstMatchingRule(call.command, call.line, call.header)
        /\ (contains(to_lowercase(call.header), "commands") /\ FlagPattern(call.line))
               => (call.ret.some /\ call.ret.val.line_type = "Flag")
        /\ (contains(to_lowercase(call.header), "commands")
            /\ Len(split_whitespace(call.line)) = 1 /\ call.ret.some)
               => call.ret.val.line_type # "Command"
        /\ (contains(to_lowercase(call.header), "usage")
            /\ contains(to_lowercase(call.header), "example")
            /\ Len(split_whitespace(call.line)) > 1 /\ ~FlagPattern(call.line))
               => (call.ret.some /\ call.ret.val.line_type = "Usage")

\* a flag line was classified under the header `Available Commands`
FlagUnderCommandsHeader ==
    /\ Returned("parse_child_line")
    /\ call.line = "  -h, --help   help for app"
    /\ call.header = "Available Commands"
    /\ call.ret.val.line_type = "Flag"
    /\ call.ret.val.value.long = Some("--help")

\* parse_usage_line has returned for the line `<path> <text>`
Parsed(path, text) == Returned("parse_usage_line") /\ call.parts = <<path, text>>

IsGroup(c) == c.component_type = "Group"

\* C14: `cmd [--foo]...` gives exactly one component, a Group with repeatable = true,
\* and `cmd [--foo] [--bar baz]` gives exactly two Groups with repeatable = false.
DottedGroupIsOneRepeatableGroup ==
    /\ Parsed("cmd", "[--foo]...")
           => /\ Len(call.ret) = 1
              /\ IsGroup(call.ret[1]) /\ call.ret[1].repeatable
    /\ Parsed("cmd", "[--foo] [--bar baz]")
           => /\ Len(call.ret) = 2
              /\ \A i \in 1..2 : IsGroup(call.ret[i]) /\ ~call.ret[i].repeatable

IsAlternativeGroup(c) == c.component_type = "AlternativeGroup"

OneAlternativeGroup == Len(call.ret) = 1 /\ IsAlternativeGroup(call.ret[1])

\* C15: the alternatives of `(s1|...|sn)` are the n sides split at top-level bars:
\* `(--a|--b)` has the two alternatives --a and --b, `(a b|c)` has two (the first
\* with the components a and b), and the bar nested in `(a|[b|c])` does not split.
AlternativesAreTopLevelSides ==
    /\ Parsed("cmd", "(--a|--b)")
           => /\ OneAlternativeGroup
              /\ Len(call.ret[1].alternatives) = 2
              /\ call.ret[1].alternatives[1].name = "--a"
              /\ call.ret[1].alternatives[2].name = "--b"
    /\ Parsed("cmd", "(a b|c)")
           => OneAlternativeGroup /\ Len(call.ret[1].alternatives) = 2
    /\ Parsed("cmd", "(a|[b|c])")
           => /\ OneAlternativeGroup
              /\ Len(call.ret[1].alternatives) = 2
              /\ IsGroup(call.ret[1].alternatives[2])

Keyword(name) == UsageComponent("Keyword", name, TRUE, FALSE, FALSE, <<>>, <<>>)
Group(children) == UsageComponent("Group", "", FALSE, FALSE, FALSE, <<>>, children)
AlternativeGroup(alternatives) ==
    UsageComponent("AlternativeGroup", "", TRUE, FALSE, FALSE, alternatives, <<>>)

CountOf(s, c) == Cardinality({i \in 1..Len(s) : Ch(s, i) = c})

\* every closer of s has its opener before it, and no opener is left open
WellNested(s, open, close) ==
    /\ CountOf(s, open) = CountOf(s, close)
    /\ \A i \in 1..Len(s) : CountOf(SubSeq(s, 1, i), close) <= CountOf(SubSeq(s, 1, i), open)

\* the text reads open X close Y with X well nested: the closer after X is the
\* matching one
SplitsAtMatching(text, open, close, i) ==
    /\ Ch(text, 1) = open /\ Ch(text, i) = close
    /\ WellNested(SubSeq(text, 2, i - 1), open, close)

\* C16: a group ends at its matching closer, counted by depth: `[a [b] c]` is one
\* Group of a, Group(b), c; `[[a]]` is a Group of a Group of a; `[x (a|b)]` is a
\* Group of x and an AlternativeGroup; and for every text `[X]Y` or `(X)Y` with X
\* well nested the group is built from X alone and followed by the components of Y.
GroupEndsAtMatchingCloser ==
    /\ Parsed("cmd", "[a [b] c]")
           => call.ret = <<Group(<<Keyword("a"), Group(<<Keyword("b")>>), Keyword("c")>>)>>
    /\ Parsed("cmd", "[[a]]") => call.ret = <<Group(<<Group(<<Keyword("a")>>)>>)>>
    /\ Parsed("cmd", "[x (a|b)]")
           => call.ret = <<Group(<<Keyword("x"),
                                   AlternativeGroup(<<Keyword("a"), Keyword("b")>>)>>)>>
    /\ Parsed("cmd", "[a] b") => call.ret = <<Group(<<Keyword("a")>>), Keyword("b")>>
    /\ (Returned("parse_usage_line") /\ call.parts[1] = "cmd") =>
           LET text == call.parts[2]
           IN  \A i \in 2..Len(text) :
                   LET X == SubSeq(text, 2, i - 1)
                       Y == SubSeq(text, i + 1, Len(text))
                   IN  /\ SplitsAtMatching(text, "[", "]", i)
                              => /\ Len(call.ret) >= 1
                                 /\ IsGroup(call.ret[1])
                                 /\ call.ret[1].children = parse_tokens(X)
                                 /\ Tail(call.ret) = parse_tokens(Y)
                       /\ SplitsAtMatching(text, "(", ")", i)
                              => \/ /\ parse_alternatives(trim(X)) = <<>>
                                    /\ call.ret = parse_tokens(Y)
                                 \/ /\ Len(call.ret) >= 1
                                    /\ IsAlternativeGroup(call.ret[1])
                                    /\ call.ret[1].alternatives = parse_alternatives(trim(X))
                                    /\ Tail(call.ret) = parse_tokens(Y)

\* `cmd [a [b] c]` was parsed: the first `]` did not end the outer group
NestedGroupParsed ==
    /\ Parsed("cmd", "[a [b] c]")
    /\ Len(call.ret) = 1
    /\ Len(call.ret[1].children) = 3
    /\ IsGroup(call.ret[1].children[2])
    /\ call.ret[1].children[3].name = "c"

\* the components of a parse result at every depth, each with whether it stands
\* inside a `[...]` bracket; the Group that is the bracket counts as inside it
RECURSIVE Placed(_, _)
Placed(components, inside) ==
    UNION {LET c == components[i]
               in == inside \/ IsGroup(c)
           IN  {[component |-> c, inside |-> in]}
               \cup Placed(c.children, in) \cup Placed(c.alternatives, in) :
           i \in 1..Len(components)}

\* C17: in every parse result a component has required = false exactly when it
\* stands inside a `[...]` bracket, and required = true outside every bracket.
RequiredExactlyOutsideBrackets ==
    Returned("parse_usage_line") =>
        \A p \in Placed(call.ret, FALSE) : p.component.required = ~p.inside

\* C18: at every depth of every parse result, alternatives is non-empty only in an
\* AlternativeGroup and children only in a Group, never both; an AlternativeGroup
\* has at least one alternative; Group and AlternativeGroup have the empty name.
AlternativesAndChildrenExclusive ==
    Returned("parse_usage_line") =>
        \A p \in Placed(call.ret, FALSE) :
            LET c == p.component
            IN  /\ c.alternatives # <<>> => IsAlternativeGroup(c)
                /\ c.children # <<>> => IsGroup(c)
                /\ ~(c.alternatives # <<>> /\ c.children # <<>>)
                /\ IsAlternativeGroup(c) => c.alternatives # <<>>
                /\ (IsGroup(c) \/ IsAlternativeGroup(c)) => c.name = ""

\* `cmd ()` was parsed: the parentheses without a component gave no AlternativeGroup
EmptyParenthesesSkipped == Parsed("cmd", "()") /\ call.ret = <<>>

\* the opener at the head of text has no matching closer
Unmatched(text, open, close) ==
    /\ text # "" /\ Ch(text, 1) = open
    /\ \A i \in 2..Len(text) : ~SplitsAtMatching(text, open, close, i)

Substrings(s) == {SubSeq(s, i, j) : i \in 1..Len(s), j \in 1..Len(s)} \ {""}

\* every scan of the parser consumes at least one character of what it is given
ScansConsume(s) ==
    /\ Len(extract_token(s).rest) < Len(s)
    /\ \A o \in {<<"[", "]">>, <<"(", ")">>} :
           LET g == extract_until_matching(Tail(s), o[1], o[2])
           IN  Len(g.content) < Len(s) /\ Len(g.rest) < Len(s)

\* the maximal runs of characters that are not delimiters start at these places
RunStarts(text) ==
    {i \in 1..Len(text) : /\ ~IsDelimiter(Ch(text, i))
                          /\ (i = 1 \/ IsDelimiter(Ch(text, i - 1)))}

ComponentsOf(r) == IF starts_with(trim(r), "-") THEN <<>> ELSE parse_tokens(trim(r))

\* C20: for a usage line `<command path> <R>` parsed with the last token of the
\* command path as base command, the result is exactly the components of R.
InvocationPrefixStripped ==
    (Returned("parse_usage_line") /\ call.parts[1] \in CommandPaths) =>
        call.ret = ComponentsOf(call.parts[2])

\* the types and names of a list of components, children included
RECURSIVE Shape(_)
Shape(components) ==
    [i \in 1..Len(components) |->
        <<components[i].component_type, components[i].name,
          Shape(components[i].children), Shape(components[i].alternatives)>>]

\* C30: a `[` or `(` written directly after a token still opens a group:
\* `cmd <file>[--opt]` gives the Argument <file> followed by a Group that holds the
\* Flag --opt, as `cmd <file> [--opt]` does, and `a[a]` gives a Keyword and a Group.
BracketAfterTokenOpensGroup ==
    /\ Parsed("cmd", "<file>[--opt]")
           => Shape(call.ret) = <<<<"Argument", "<file>", <<>>, <<>>>>,
                                  <<"Group", "", <<<<"Flag", "--opt", <<>>, <<>>>>>>, <<>>>>>>
    /\ Parsed("cmd", "a[a]")
           => Shape(call.ret) = <<<<"Keyword", "a", <<>>, <<>>>>,
                                  <<"Group", "", <<<<"Keyword", "a", <<>>, <<>>>>>>, <<>>>>>>
    /\ Parsed("cmd", "<file>(a|b)")
           => (Len(call.ret) = 2 /\ IsAlternativeGroup(call.ret[2]))

\* C26: a finished crawl holds, for every command whose probe succeeded within the
\* depth budget, the outputs of that probe, also when the name of the command is
\* listed twice on the help page of its parent.
CrawledSubtreeKept ==
    pc = "done" =>
        \A nd \in FinalNodes :
            (nd.depth <= MaxDepth /\ HelpStatus(nd.cmd) = 0)
                => "outputs" \in DOMAIN nd.rec

\* C27: every command node of a finished tree carries depth = depth of its parent
\* + 1 and command_path = command_path of its parent, a blank, its name; children
\* whose probe failed and children beyond the depth cap included.
EveryNodeHasDepthAndPath ==
    pc = "done" =>
        \A nd \in FinalNodes :
            /\ "depth" \in DOMAIN nd.rec /\ nd.rec.depth = nd.depth
            /\ "command_path" \in DOMAIN nd.rec /\ nd.rec.command_path = nd.cmd

(***************************************************************************)
(* Vocabulary of the diff properties                                       *)
(***************************************************************************)
IsTreeFile(file) == file.readable /\ file.json.some /\ file.json.val \in Trees
BothTrees == call.op = "compare_json_structures" /\ IsTreeFile(call.from) /\ IsTreeFile(call.to)
From == call.from.json.val
To == call.to.json.val

\* the change lists returned so far for the two trees
Lists == {call.runs[i].changes : i \in 1..Len(call.runs)}

CommandsOf(node) == node.v.children.v.COMMAND.v
FlagsOf(node) == node.v.children.v.FLAG.v

\* the levels the two trees share: the roots, and the two nodes of every name that
\* is a command of both nodes of a shared level; chain is the names below the root
RECURSIVE SharedLevels(_, _, _)
SharedLevels(from, to, chain) ==
    {[chain |-> chain, from |-> from, to |-> to]}
    \cup UNION {SharedLevels(CommandsOf(from)[n], CommandsOf(to)[n], Append(chain, n)) :
                n \in DOMAIN CommandsOf(from) \cap DOMAIN CommandsOf(to)}

TimesIn(changes, change) == Cardinality({i \in 1..Len(changes) : changes[i] = change})

IsCommandChange(change) == change.type \in {"CommandAdded", "CommandRemoved"}

\* the entries of changes that are flag changes of the command, in their order
FlagChangesOf(changes, command) ==
    SelectSeq(changes, LAMBDA c : ~IsCommandChange(c) /\ c.command = command)

ExpectedCommandChanges ==
    UNION {{CommandAdded(join(l.chain, " "), n) :
               n \in DOMAIN CommandsOf(l.to) \ DOMAIN CommandsOf(l.from)}
           \cup {CommandRemoved(join(l.chain, " "), n) :
                    n \in DOMAIN CommandsOf(l.from) \ DOMAIN CommandsOf(l.to)} :
           l \in SharedLevels(From, To, <<>>)}

\* C21: at every shared level the diff has exactly one CommandAdded per name only
\* in `to` and one CommandRemoved per name only in `from`, with parent = the names
\* below the root joined by blanks; it has no other command change and no flag
\* change of a command that is not shared; for a shared command its flag changes
\* are those of the flag diff of its two nodes.
CommandChangesPerSharedLevel ==
    BothTrees =>
        \A changes \in Lists :
            /\ \A e \in ExpectedCommandChanges : TimesIn(changes, e) = 1
            /\ \A i \in 1..Len(changes) :
                   IF IsCommandChange(changes[i]) THEN changes[i] \in ExpectedCommandChanges
                   ELSE \E l \in SharedLevels(From, To, <<>>) :
                            l.chain # <<>> /\ changes[i].command = join(l.chain, " ")
            /\ \A l \in SharedLevels(From, To, <<>>) :
                   l.chain # <<>> =>
                       FlagChangesOf(changes, join(l.chain, " "))
                           \in compare_flags_json(l.from, l.to, join(l.chain, " "))

\* a diff returned the command e added two levels below the root, next to a
\* removed command whose flags are not reported
NestedCommandAdded ==
    /\ BothTrees
    /\ \E changes \in Lists :
           /\ TimesIn(changes, CommandAdded("a c", "e")) = 1
           /\ TimesIn(changes, CommandRemoved("a", "d")) = 1
           /\ TimesIn(changes, CommandAdded("", "b")) = 1

\* a field of a stored flag: its text, or nothing
Field(flag, key) == IF flag.v[key].t = "string" THEN Some(flag.v[key].v) ELSE None
Text(o) == IF o.some THEN o.val ELSE ""

\* the long name, or the short name when there is no long name
Signature(flag) ==
    IF Text(Field(flag, "long")) # "" THEN Text(Field(flag, "long"))
    ELSE Text(Field(flag, "short"))

Signatures(flags) == {Signature(flags[i]) : i \in 1..Len(flags)}
WithSignature(flags, sig) == flags[CHOOSE i \in 1..Len(flags) : Signature(flags[i]) = sig]

\* the flag changes between the two nodes of a shared command
ExpectedFlagChanges(from, to, command) ==
    LET F == FlagsOf(from)
        T == FlagsOf(to)
        matched == Signatures(F) \cap Signatures(T)
    IN  {FlagAdded(command, format_flag_display(WithSignature(T, s))) :
            s \in Signatures(T) \ Signatures(F)}
        \cup {FlagRemoved(command, format_flag_display(WithSignature(F, s))) :
                 s \in Signatures(F) \ Signatures(T)}
        \cup {FlagDescriptionChanged(command, format_flag_display(WithSignature(F, s)),
                                     Text(Field(WithSignature(F, s), "description")),
                                     Text(Field(WithSignature(T, s), "description"))) :
                 s \in {m \in matched :
                           Field(WithSignature(F, m), "description")
                               # Field(WithSignature(T, m), "description")}}
        \cup {FlagDataTypeChanged(command, format_flag_display(WithSignature(F, s)),
                                  Field(WithSignature(F, s), "data_type"),
                                  Field(WithSignature(T, s), "data_type")) :
                 s \in {m \in matched :
                           Field(WithSignature(F, m), "data_type")
                               # Field(WithSignature(T, m), "data_type")}}

\* C22: for a command of both trees the diff has, each exactly once and nothing
\* else: FlagAdded per signature only in `to`, FlagRemoved per signature only in
\* `from`, and for a signature of both FlagDescriptionChanged when the descriptions
\* differ and FlagDataTypeChanged when the data types differ, absent against
\* present included; the signature is the long name, or the short name without one.
FlagsMatchedBySignature ==
    BothTrees =>
        \A changes \in Lists :
            \A l \in SharedLevels(From, To, <<>>) :
                l.chain # <<>> =>
                    LET command == join(l.chain, " ")
                        mine == FlagChangesOf(changes, command)
                        expected == ExpectedFlagChanges(l.from, l.to, command)
                    IN  /\ {mine[i] : i \in 1..Len(mine)} = expected
                        /\ Len(mine) = Cardinality(expected)

\* a diff reported exactly a reworded description and a dropped data type for
\* the two flags of `a`, matched by long name and by short name
FlagChangesReported ==
    /\ BothTrees
    /\ \E changes \in Lists :
           LET mine == FlagChangesOf(changes, "a")
           IN  {mine[i] : i \in 1..Len(mine)} =
                   {FlagDescriptionChanged("a", "-v/--verbose", "Verbose", "More output"),
                    FlagDataTypeChanged("a", "-p", Some("int"), None)}

\* command additions before command removals before flag changes
Rank(change) ==
    IF change.type = "CommandAdded" THEN 1
    ELSE IF change.type = "CommandRemoved" THEN 2 ELSE 3

\* C23: in every list the diff returns, nested command levels or not, all
\* CommandAdded entries come first, then all CommandRemoved entries, then the flag
\* changes.
AddsThenRemovesThenFlags ==
    call.op = "compare_json_structures" =>
        \A i \in 1..Len(call.runs) :
            call.runs[i].ok =>
                \A j, k \in 1..Len(call.runs[i].changes) :
                    j < k => Rank(call.runs[i].changes[j]) <= Rank(call.runs[i].changes[k])

\* the entry the diff of the swapped trees has for an entry of the diff
Swapped(change) ==
    IF change.type = "CommandAdded" THEN CommandRemoved(change.parent, change.command)
    ELSE IF change.type = "CommandRemoved" THEN CommandAdded(change.parent, change.command)
    ELSE IF change.type = "FlagAdded" THEN FlagRemoved(change.command, change.flag)
    ELSE IF change.type = "FlagRemoved" THEN FlagAdded(change.command, change.flag)
    ELSE IF change.type = "FlagDescriptionChanged"
    THEN FlagDescriptionChanged(change.command, change.flag, change.new_desc, change.old_desc)
    ELSE FlagDataTypeChanged(change.command, change.flag, change.new_type, change.old_type)

Entries(changes) == {changes[i] : i \in 1..Len(changes)}

\* C24: the diff of B against A has the entries of the diff of A against B with
\* added and removed swapped and with old and new swapped, the command and the
\* flag display string of every entry being the same.
DiffIsSymmetric ==
    BothTrees =>
        \A changes \in Lists :
            \A back \in compare_commands_json(To, From, "") :
                Entries(back) = {Swapped(c) : c \in Entries(changes)}

\* C25: when one of the two files cannot be read, holds no JSON, or holds JSON that
\* is no tree, every evaluation returns an error and no change list.
BadInputIsHardFailure ==
    (call.op = "compare_json_structures" /\ ~(IsTreeFile(call.from) /\ IsTreeFile(call.to)))
        => \A i \in 1..Len(call.runs) : ~call.runs[i].ok

\* C28: two trees whose roots differ in their FLAG collections never give an
\* empty change list: the flag changes of the root are reported like those of a
\* shared subcommand.
RootFlagChangesReported ==
    (BothTrees /\ ExpectedFlagChanges(From, To, "") # {})
        => \A changes \in Lists : changes # <<>>

\* C29: two evaluations of the diff on the same two files return the same changes
\* in the same sequence.
DiffIsDeterministic ==
    call.op = "compare_json_structures" =>
        \A i, j \in 1..Len(call.runs) : call.runs[i] = call.runs[j]

====
